---- MODULE Spec2Model ----
(***************************************************************************)
(* SymCryptDhSecretAgreement (lib/dh.c): the validation gates, the single  *)
(* scratch allocation, the exponentiation, the zero check, the output      *)
(* encoding and the wipe-then-free cleanup, run by one or several          *)
(* concurrent callers over a shared allocator.                             *)
(***************************************************************************)
EXTENDS Integers, Sequences, FiniteSets

\* ------------------------------------------------------------------ bounds
MaxCalls == 2      \* concurrent invocations in SpecPair
NumBlocks == 2     \* blocks the allocator can hand out at the same time

\* ----------------------------------------------------------- status values
SYMCRYPT_NO_ERROR == "NoError"
SYMCRYPT_INVALID_ARGUMENT == "InvalidArgument"
SYMCRYPT_WRONG_BLOCK_SIZE == "WrongOutputSize"
SYMCRYPT_MEMORY_ALLOCATION_FAILURE == "MemoryAllocationFailure"
SYMCRYPT_INVALID_BLOB == "InvalidBlob"

NULL == 0

\* ------------------------------------------------------- groups and keys
\* Scaled-down groups: one "digit" is one byte.  Group 1 is the safe prime
\* 263 = 2*131 + 1 with generator 2 (of order 131); group 2 is the prime 7
\* with generator 3.
Dlgroup ==
    << [pmP |-> 263, G |-> 2, nBitsOfP |-> 9, nDigitsOfP |-> 2, cbPrimeP |-> 2],
       [pmP |-> 7,   G |-> 3, nBitsOfP |-> 3, nDigitsOfP |-> 1, cbPrimeP |-> 1] >>

\* Keys.  1, 2: genuine keys whose exponent is reduced modulo Q (8 bits).
\* 3: genuine key whose exponent is modulo P (needs all 9 bits of P).
\* 4: genuine key with exponent 0 (public element 1), modulo P.
\* 5: public-only key whose public element is 0.
\* 6: genuine key of group 2.
\* 7: genuine key whose exponent is modulo 2^nBitsPriv (3 bits).
Dlkey ==
    << [pDlgroup |-> 1, fHasPrivateKey |-> TRUE,  fPrivateModQ |-> TRUE,
        nBitsPriv |-> 8, piPrivateKey |-> 5,   pePublicKey |-> 32],
       [pDlgroup |-> 1, fHasPrivateKey |-> TRUE,  fPrivateModQ |-> TRUE,
        nBitsPriv |-> 8, piPrivateKey |-> 100, pePublicKey |-> 31],
       [pDlgroup |-> 1, fHasPrivateKey |-> TRUE,  fPrivateModQ |-> FALSE,
        nBitsPriv |-> 8, piPrivateKey |-> 260, pePublicKey |-> 66],
       [pDlgroup |-> 1, fHasPrivateKey |-> TRUE,  fPrivateModQ |-> FALSE,
        nBitsPriv |-> 8, piPrivateKey |-> 0,   pePublicKey |-> 1],
       [pDlgroup |-> 1, fHasPrivateKey |-> FALSE, fPrivateModQ |-> FALSE,
        nBitsPriv |-> 0, piPrivateKey |-> 0,   pePublicKey |-> 0],
       [pDlgroup |-> 2, fHasPrivateKey |-> TRUE,  fPrivateModQ |-> FALSE,
        nBitsPriv |-> 3, piPrivateKey |-> 3,   pePublicKey |-> 6],
       [pDlgroup |-> 1, fHasPrivateKey |-> TRUE,  fPrivateModQ |-> TRUE,
        nBitsPriv |-> 3, piPrivateKey |-> 6,   pePublicKey |-> 64] >>

Keys == DOMAIN Dlkey
PairKeys == {1, 2, 3, 4}

SYMCRYPT_NUMBER_FORMAT_LSB_FIRST == "LSB"
SYMCRYPT_NUMBER_FORMAT_MSB_FIRST == "MSB"
Formats == {SYMCRYPT_NUMBER_FORMAT_LSB_FIRST, SYMCRYPT_NUMBER_FORMAT_MSB_FIRST, "Other"}

\* ------------------------------------------------- external collaborators
SYMCRYPT_MAX(a, b) == IF a > b THEN a ELSE b

SymCryptDlgroupIsSame(g1, g2) ==
    g1 = g2 \/ (Dlgroup[g1].pmP = Dlgroup[g2].pmP /\ Dlgroup[g1].G = Dlgroup[g2].G)

SymCryptDlkeySizeofPublicKey(k) == Dlgroup[Dlkey[k].pDlgroup].cbPrimeP

SymCryptSizeofModElementFromModulus(g) == Dlgroup[g].nDigitsOfP

SYMCRYPT_SCRATCH_BYTES_FOR_COMMON_MOD_OPERATIONS(nDigits) == nDigits + 1

SYMCRYPT_SCRATCH_BYTES_FOR_MODEXP(nDigits) == nDigits + 2

\* Square-and-multiply over exactly nBitsExp bits of the exponent: the bits
\* of the exponent above nBitsExp are never looked at.
RECURSIVE SymCryptModExp(_, _, _, _)
SymCryptModExp(P, base, exp, nBitsExp) ==
    IF nBitsExp = 0
    THEN 1 % P
    ELSE LET r == SymCryptModExp(P, base, exp \div 2, nBitsExp - 1)
         IN  (r * r * (IF exp % 2 = 1 THEN base ELSE 1)) % P

SymCryptModElementIsZero(v) == v = 0

\* Bytes of a value, least significant first, in cb bytes.
RECURSIVE LsbBytes(_, _)
LsbBytes(v, cb) == IF cb = 0 THEN << >> ELSE << v % 256 >> \o LsbBytes(v \div 256, cb - 1)

Reverse(s) == [i \in 1..Len(s) |-> s[Len(s) + 1 - i]]

RECURSIVE FromLsbBytes(_)
FromLsbBytes(s) == IF s = << >> THEN 0 ELSE s[1] + 256 * FromLsbBytes(Tail(s))

\* The status the encoding primitive reports for a format.
GetValueStatus(format) ==
    IF format \in {SYMCRYPT_NUMBER_FORMAT_LSB_FIRST, SYMCRYPT_NUMBER_FORMAT_MSB_FIRST}
    THEN SYMCRYPT_NO_ERROR
    ELSE SYMCRYPT_INVALID_ARGUMENT

\* The bytes the encoding primitive writes for a supported format.
GetValueBytes(v, cb, format) ==
    IF format = SYMCRYPT_NUMBER_FORMAT_LSB_FIRST THEN LsbBytes(v, cb) ELSE Reverse(LsbBytes(v, cb))

\* ----------------------------------------------------------------- inputs
CbValues == 1..2
FlagValues == 0..1

AllArgs ==
    [pkPrivate : Keys, pkPublic : Keys, format : Formats,
     flags : FlagValues, cbAgreedSecret : CbValues]

\* What the destination buffer holds before the call.
PriorBuffer(cb) == [i \in 1..cb |-> 170]

\* ------------------------------------------------------------------ state
VARIABLES
    calls,           \* the invocations of this run
    args,            \* args[c]: the arguments of invocation c
    pc,              \* pc[c]: where invocation c is
    scError,         \* the locals of SymCryptDhSecretAgreement, per invocation
    pbScratch,
    cbScratch,
    cbModelement,
    pDlgroup,
    nBitsOfExp,
    pbAgreedSecret,  \* pbAgreedSecret[c]: the destination buffer of c
    heap,            \* the allocator's blocks: owner, size, bytes
    ops,             \* ops[c]: how often c called each primitive
    encStatus        \* encStatus[c]: what the encoding primitive reported to c

locals == <<scError, pbScratch, cbScratch, cbModelement, pDlgroup, nBitsOfExp>>
vars == <<calls, args, pc, locals, pbAgreedSecret, heap, ops, encStatus>>

Blocks == 1..NumBlocks

\* ---------------------------------------------------- sizes (lines 134-138)
\* A size that takes the smaller of the two working-space needs.
ScratchBytesSmaller(g) ==
    SymCryptSizeofModElementFromModulus(g) +
    SYMCRYPT_SCRATCH_BYTES_FOR_COMMON_MOD_OPERATIONS(Dlgroup[g].nDigitsOfP)

ScratchBytes(g) ==
    SymCryptSizeofModElementFromModulus(g) +
    SYMCRYPT_MAX( SYMCRYPT_SCRATCH_BYTES_FOR_MODEXP(Dlgroup[g].nDigitsOfP),
                  SYMCRYPT_SCRATCH_BYTES_FOR_COMMON_MOD_OPERATIONS(Dlgroup[g].nDigitsOfP) )

\* Every block is large enough for the largest request.
BlockCap == ScratchBytes(1)

ZeroBytes == [i \in 1..BlockCap |-> 0]

\* ---------------------------------------------------------------- Init
InitCalls(cs, argSets) ==
    /\ calls = cs
    /\ args \in argSets
    /\ pc = [c \in cs |-> "validate"]
    /\ scError = [c \in cs |-> SYMCRYPT_NO_ERROR]
    /\ pbScratch = [c \in cs |-> NULL]
    /\ cbScratch = [c \in cs |-> 0]
    /\ cbModelement = [c \in cs |-> 0]
    /\ pDlgroup = [c \in cs |-> NULL]
    /\ nBitsOfExp = [c \in cs |-> 0]
    /\ pbAgreedSecret = [c \in cs |-> PriorBuffer(args[c].cbAgreedSecret)]
    /\ heap = [b \in Blocks |-> [owner |-> NULL, cb |-> 0, mem |-> ZeroBytes]]
    /\ ops = [c \in cs |-> [alloc |-> 0, modexp |-> 0, getvalue |-> 0, wipe |-> 0, free |-> 0]]
    /\ encStatus = [c \in cs |-> "none"]

Init == InitCalls({1}, [{1} -> AllArgs])

\* ------------------------------------------- validation (lines 108-132)
\* A validation that skips the flags word.
ValidateArgsNoFlags(a) ==
    IF ~Dlkey[a.pkPrivate].fHasPrivateKey
    THEN [st |-> SYMCRYPT_INVALID_ARGUMENT, g |-> NULL]
    ELSE IF ~SymCryptDlgroupIsSame(Dlkey[a.pkPrivate].pDlgroup, Dlkey[a.pkPublic].pDlgroup)
    THEN [st |-> SYMCRYPT_INVALID_ARGUMENT, g |-> NULL]
    ELSE IF a.cbAgreedSecret # SymCryptDlkeySizeofPublicKey(a.pkPrivate)
    THEN [st |-> SYMCRYPT_WRONG_BLOCK_SIZE, g |-> Dlkey[a.pkPrivate].pDlgroup]
    ELSE [st |-> SYMCRYPT_NO_ERROR, g |-> Dlkey[a.pkPrivate].pDlgroup]

\* A validation that takes the private key's group without comparing.
ValidateArgsNoGroupCheck(a) ==
    IF a.flags # 0 \/ ~Dlkey[a.pkPrivate].fHasPrivateKey
    THEN [st |-> SYMCRYPT_INVALID_ARGUMENT, g |-> NULL]
    ELSE IF a.cbAgreedSecret # SymCryptDlkeySizeofPublicKey(a.pkPrivate)
    THEN [st |-> SYMCRYPT_WRONG_BLOCK_SIZE, g |-> Dlkey[a.pkPrivate].pDlgroup]
    ELSE [st |-> SYMCRYPT_NO_ERROR, g |-> Dlkey[a.pkPrivate].pDlgroup]

\* A validation that accepts a destination at least as long as the element.
ValidateArgsSizeAtLeast(a) ==
    IF a.flags # 0 \/ ~Dlkey[a.pkPrivate].fHasPrivateKey
    THEN [st |-> SYMCRYPT_INVALID_ARGUMENT, g |-> NULL]
    ELSE IF ~SymCryptDlgroupIsSame(Dlkey[a.pkPrivate].pDlgroup, Dlkey[a.pkPublic].pDlgroup)
    THEN [st |-> SYMCRYPT_INVALID_ARGUMENT, g |-> NULL]
    ELSE IF a.cbAgreedSecret < SymCryptDlkeySizeofPublicKey(a.pkPrivate)
    THEN [st |-> SYMCRYPT_WRONG_BLOCK_SIZE, g |-> Dlkey[a.pkPrivate].pDlgroup]
    ELSE [st |-> SYMCRYPT_NO_ERROR, g |-> Dlkey[a.pkPrivate].pDlgroup]

\* The gates in the order of the code: the status they end with, and the
\* group pointer they leave in pDlgroup.
ValidateArgs(a) ==
    IF a.flags # 0 \/ ~Dlkey[a.pkPrivate].fHasPrivateKey
    THEN [st |-> SYMCRYPT_INVALID_ARGUMENT, g |-> NULL]
    ELSE IF ~SymCryptDlgroupIsSame(Dlkey[a.pkPrivate].pDlgroup, Dlkey[a.pkPublic].pDlgroup)
    THEN [st |-> SYMCRYPT_INVALID_ARGUMENT, g |-> NULL]
    ELSE IF a.cbAgreedSecret # SymCryptDlkeySizeofPublicKey(a.pkPrivate)
    THEN [st |-> SYMCRYPT_WRONG_BLOCK_SIZE, g |-> Dlkey[a.pkPrivate].pDlgroup]
    ELSE [st |-> SYMCRYPT_NO_ERROR, g |-> Dlkey[a.pkPrivate].pDlgroup]

\* Lines 108-138: the gates, then the size computation.
Validate(c) ==
    /\ c \in calls
    /\ pc[c] = "validate"
    /\ LET a  == args[c]
           st == ValidateArgs(a).st
           g  == ValidateArgs(a).g
       IN  /\ pDlgroup' = [pDlgroup EXCEPT ![c] = g]
           /\ IF st # SYMCRYPT_NO_ERROR
              THEN /\ scError' = [scError EXCEPT ![c] = st]
                   /\ pc' = [pc EXCEPT ![c] = "cleanup"]
                   /\ UNCHANGED <<cbModelement, cbScratch>>
              ELSE /\ cbModelement' = [cbModelement EXCEPT ![c] = SymCryptSizeofModElementFromModulus(g)]
                   /\ cbScratch' = [cbScratch EXCEPT ![c] = ScratchBytes(g)]
                   /\ pc' = [pc EXCEPT ![c] = "alloc"]
                   /\ UNCHANGED scError
    /\ UNCHANGED <<calls, args, pbScratch, nBitsOfExp, pbAgreedSecret, heap, ops, encStatus>>

\* ------------------------------------------- allocation (lines 140-146)
\* What SymCryptCallbackAlloc may return: NULL, or any free block.
SymCryptCallbackAlloc(cb) ==
    {NULL} \cup {b \in Blocks : heap[b].owner = NULL /\ cb <= BlockCap}

Alloc(c) ==
    /\ c \in calls
    /\ pc[c] = "alloc"
    /\ \E p \in SymCryptCallbackAlloc(cbScratch[c]) :
          /\ pbScratch' = [pbScratch EXCEPT ![c] = p]
          /\ ops' = [ops EXCEPT ![c].alloc = @ + 1]
          /\ IF p = NULL
             THEN /\ scError' = [scError EXCEPT ![c] = SYMCRYPT_MEMORY_ALLOCATION_FAILURE]
                  /\ pc' = [pc EXCEPT ![c] = "cleanup"]
                  /\ UNCHANGED heap
             ELSE /\ heap' = [heap EXCEPT ![p].owner = c, ![p].cb = cbScratch[c]]
                  /\ pc' = [pc EXCEPT ![c] = "modexp"]
                  /\ UNCHANGED scError
    /\ UNCHANGED <<calls, args, cbScratch, cbModelement, pDlgroup, nBitsOfExp,
                   pbAgreedSecret, encStatus>>

\* ------------------------------------- exponentiation (lines 148-176)
RECURSIVE BitLength(_)
BitLength(n) == IF n = 0 THEN 0 ELSE 1 + BitLength(n \div 2)

\* A bit-length that is always the key's declared one.
NBitsOfExpDeclared(k, g) == Dlkey[k].nBitsPriv

\* A bit-length taken from the exponent's value.
NBitsOfExpOfValue(k, g) == BitLength(Dlkey[k].piPrivateKey)

\* The exponent bit-length policy (lines 157-165).
NBitsOfExp(k, g) ==
    IF Dlkey[k].fPrivateModQ THEN Dlkey[k].nBitsPriv ELSE Dlgroup[g].nBitsOfP

\* Bytes i..j of a block replaced by the sequence s.
WriteBytes(mem, i, s) ==
    [n \in 1..Len(mem) |-> IF n >= i /\ n < i + Len(s) THEN s[n - i + 1] ELSE mem[n]]

\* A working region after a primitive has used it.
UsedBytes(cb) == [i \in 1..cb |-> 255]

\* The element peRes, read from the start of the block it lives in.
ReadElement(p, cbElem) == FromLsbBytes(SubSeq(heap[p].mem, 1, cbElem))

ModExp(c) ==
    /\ c \in calls
    /\ pc[c] = "modexp"
    /\ LET a == args[c]
           g == pDlgroup[c]
           p == pbScratch[c]
           n == NBitsOfExp(a.pkPrivate, g)
           r == SymCryptModExp(Dlgroup[g].pmP, Dlkey[a.pkPublic].pePublicKey,
                               Dlkey[a.pkPrivate].piPrivateKey, n)
           cbScratchInternal == cbScratch[c] - cbModelement[c]
       IN  /\ nBitsOfExp' = [nBitsOfExp EXCEPT ![c] = n]
           /\ heap' = [heap EXCEPT ![p].mem =
                         WriteBytes(WriteBytes(@, 1, LsbBytes(r, cbModelement[c])),
                                    cbModelement[c] + 1, UsedBytes(cbScratchInternal))]
    /\ ops' = [ops EXCEPT ![c].modexp = @ + 1]
    /\ pc' = [pc EXCEPT ![c] = "iszero"]
    /\ UNCHANGED <<calls, args, scError, pbScratch, cbScratch, cbModelement, pDlgroup,
                   pbAgreedSecret, encStatus>>

\* ------------------------------------------ zero check (lines 178-183)
\* A zero check on the public element that went into the exponentiation.
PublicIsZero(c) == SymCryptModElementIsZero(Dlkey[args[c].pkPublic].pePublicKey)

ResultIsZero(c) == SymCryptModElementIsZero(ReadElement(pbScratch[c], cbModelement[c]))

CheckZero(c) ==
    /\ c \in calls
    /\ pc[c] = "iszero"
    /\ IF ResultIsZero(c)
       THEN /\ scError' = [scError EXCEPT ![c] = SYMCRYPT_INVALID_BLOB]
            /\ pc' = [pc EXCEPT ![c] = "cleanup"]
       ELSE /\ pc' = [pc EXCEPT ![c] = "getvalue"]
            /\ UNCHANGED scError
    /\ UNCHANGED <<calls, args, pbScratch, cbScratch, cbModelement, pDlgroup, nBitsOfExp,
                   pbAgreedSecret, heap, ops, encStatus>>

\* --------------------------------------------- output (lines 185-197)
\* A status that turns every encoding outcome into success.
StatusFromGetValueMasked(st) == SYMCRYPT_NO_ERROR

\* The status the function takes from the encoding primitive (line 186).
StatusFromGetValue(st) == st

GetValue(c) ==
    /\ c \in calls
    /\ pc[c] = "getvalue"
    /\ LET a  == args[c]
           p  == pbScratch[c]
           st == GetValueStatus(a.format)
           v  == ReadElement(p, cbModelement[c])
           cbScratchInternal == cbScratch[c] - cbModelement[c]
       IN  /\ encStatus' = [encStatus EXCEPT ![c] = st]
           /\ scError' = [scError EXCEPT ![c] = StatusFromGetValue(st)]
           /\ IF st = SYMCRYPT_NO_ERROR
              THEN /\ pbAgreedSecret' = [pbAgreedSecret EXCEPT ![c] =
                                           GetValueBytes(v, a.cbAgreedSecret, a.format)]
                   /\ heap' = [heap EXCEPT ![p].mem =
                                 WriteBytes(@, cbModelement[c] + 1, UsedBytes(cbScratchInternal))]
              ELSE UNCHANGED <<pbAgreedSecret, heap>>
    /\ ops' = [ops EXCEPT ![c].getvalue = @ + 1]
    /\ pc' = [pc EXCEPT ![c] = "cleanup"]
    /\ UNCHANGED <<calls, args, pbScratch, cbScratch, cbModelement, pDlgroup, nBitsOfExp>>

\* -------------------------------------------- cleanup (lines 199-206)
\* A wipe through one pointer shared by all invocations.
WipeTargetShared(c) == 1

\* A wipe of the result element only.
WipeLengthElement(c) == cbModelement[c]

\* The block and the extent handed to SymCryptWipe (line 202).
WipeTarget(c) == pbScratch[c]

WipeLength(c) == cbScratch[c]

\* The block handed to SymCryptCallbackFree (line 203).
FreeTarget(c) == pbScratch[c]

SymCryptWipe(mem, cb) == [n \in 1..Len(mem) |-> IF n <= cb THEN 0 ELSE mem[n]]

\* Lines 199-202: nothing to do without a buffer, else the wipe.
Cleanup(c) ==
    /\ c \in calls
    /\ pc[c] = "cleanup"
    /\ IF pbScratch[c] # NULL
       THEN /\ heap' = [heap EXCEPT ![WipeTarget(c)].mem = SymCryptWipe(@, WipeLength(c))]
            /\ ops' = [ops EXCEPT ![c].wipe = @ + 1]
            /\ pc' = [pc EXCEPT ![c] = "free"]
       ELSE /\ pc' = [pc EXCEPT ![c] = "done"]
            /\ UNCHANGED <<heap, ops>>
    /\ UNCHANGED <<calls, args, locals, pbAgreedSecret, encStatus>>

\* Lines 203-206: the release, then the return of scError.
Free(c) ==
    /\ c \in calls
    /\ pc[c] = "free"
    /\ heap' = [heap EXCEPT ![FreeTarget(c)].owner = NULL, ![FreeTarget(c)].cb = 0]
    /\ ops' = [ops EXCEPT ![c].free = @ + 1]
    /\ pc' = [pc EXCEPT ![c] = "done"]
    /\ UNCHANGED <<calls, args, locals, pbAgreedSecret, encStatus>>

Next ==
    \E c \in 1..MaxCalls :
        \/ Validate(c)
        \/ Alloc(c)
        \/ ModExp(c)
        \/ CheckZero(c)
        \/ GetValue(c)
        \/ Cleanup(c)
        \/ Free(c)

Spec == Init /\ [][Next]_vars

\* ----------------------------------------- two parties, concurrently
\* Party A calls with (its private key, B's public key), party B with (its
\* private key, A's public key); further invocations alternate likewise.
PairFormats == Formats

PairArg(c, A, B, fmt) ==
    [pkPrivate |-> IF c % 2 = 1 THEN A ELSE B,
     pkPublic  |-> IF c % 2 = 1 THEN B ELSE A,
     format |-> fmt, flags |-> 0,
     cbAgreedSecret |-> SymCryptDlkeySizeofPublicKey(A)]

PairArgs ==
    { [c \in 1..MaxCalls |-> PairArg(c, A, B, IF c % 2 = 1 THEN fA ELSE fB)] :
        A \in PairKeys, B \in PairKeys, fA \in PairFormats, fB \in PairFormats }

InitPair == InitCalls(1..MaxCalls, PairArgs)

SpecPair == InitPair /\ [][Next]_vars

\* ================================================================ claims
Done(c) == pc[c] = "done"

Owned(c) == {b \in Blocks : heap[b].owner = c}

FlagsOk(a) == a.flags = 0
HasPrivate(a) == Dlkey[a.pkPrivate].fHasPrivateKey
SameGroup(a) == SymCryptDlgroupIsSame(Dlkey[a.pkPrivate].pDlgroup, Dlkey[a.pkPublic].pDlgroup)
SizeOk(a) == a.cbAgreedSecret = Dlgroup[Dlkey[a.pkPrivate].pDlgroup].cbPrimeP
PassesValidation(a) == FlagsOk(a) /\ HasPrivate(a) /\ SameGroup(a) /\ SizeOk(a)

Untouched(c) == pbAgreedSecret[c] = PriorBuffer(args[c].cbAgreedSecret)

\* Nothing was allocated, computed, wiped or freed by c.
NoWork(c) ==
    /\ ops[c].alloc = 0 /\ ops[c].modexp = 0 /\ ops[c].getvalue = 0
    /\ ops[c].wipe = 0 /\ ops[c].free = 0
    /\ pbScratch[c] = NULL /\ Owned(c) = {}

\* The element the exponentiation of c computed, from the bit-length it passed.
Computed(c) ==
    SymCryptModExp(Dlgroup[pDlgroup[c]].pmP, Dlkey[args[c].pkPublic].pePublicKey,
                   Dlkey[args[c].pkPrivate].piPrivateKey, nBitsOfExp[c])

\* C1: a call that got its scratch buffer returns only after one wipe of all
\* cbScratch bytes followed by one release: a block is all zero whenever it
\* is about to be released or is free, and a returned call owns no block.
C1_WipedThenFreedOnce ==
    /\ \A b \in Blocks : heap[b].owner = NULL => heap[b].mem = ZeroBytes
    /\ \A c \in calls :
          /\ pc[c] = "free" =>
                /\ heap[pbScratch[c]].owner = c
                /\ heap[pbScratch[c]].cb = cbScratch[c]
                /\ heap[pbScratch[c]].mem = ZeroBytes
                /\ ops[c].wipe = 1 /\ ops[c].free = 0
          /\ Done(c) =>
                /\ Owned(c) = {}
                /\ pbScratch[c] # NULL => ops[c].wipe = 1 /\ ops[c].free = 1
                /\ pbScratch[c] = NULL => ops[c].wipe = 0 /\ ops[c].free = 0

C1_Witness ==
    \E c \in calls :
        /\ Done(c) /\ pbScratch[c] # NULL /\ scError[c] = SYMCRYPT_INVALID_BLOB
        /\ ops[c].modexp = 1 /\ ops[c].wipe = 1 /\ ops[c].free = 1

\* A key whose public element is the generator raised to its private exponent.
Genuine(k) ==
    /\ Dlkey[k].fHasPrivateKey
    /\ Dlkey[k].pePublicKey =
          SymCryptModExp(Dlgroup[Dlkey[k].pDlgroup].pmP, Dlgroup[Dlkey[k].pDlgroup].G,
                         Dlkey[k].piPrivateKey, Dlgroup[Dlkey[k].pDlgroup].nBitsOfP)

GenuineKeys == {k \in Keys : Genuine(k)}

\* c1 and c2 are the two sides of one exchange.
Counterparts(c1, c2) ==
    /\ args[c1].pkPrivate = args[c2].pkPublic
    /\ args[c2].pkPrivate = args[c1].pkPublic
    /\ args[c1].pkPrivate \in GenuineKeys /\ args[c2].pkPrivate \in GenuineKeys
    /\ Dlkey[args[c1].pkPrivate].pDlgroup = Dlkey[args[c2].pkPrivate].pDlgroup
    /\ args[c1].format = args[c2].format
    /\ args[c1].flags = 0 /\ args[c2].flags = 0
    /\ SizeOk(args[c1]) /\ SizeOk(args[c2])

SameResult(c1, c2) ==
    /\ scError[c1] = scError[c2]
    /\ scError[c1] = SYMCRYPT_NO_ERROR => pbAgreedSecret[c1] = pbAgreedSecret[c2]

\* C2 as stated: the two sides of an exchange return the same status and, on
\* success, the same bytes.
C2_SameStatusAlways ==
    \A c1 \in calls, c2 \in calls :
        (Done(c1) /\ Done(c2) /\ Counterparts(c1, c2)) => SameResult(c1, c2)

\* C2: the two sides of an exchange return the same status and, on success,
\* the same bytes, whenever the scratch allocation has the same outcome on
\* both sides; a side whose allocation fails returns MemoryAllocationFailure.
C2_SameResultUnlessAllocFails ==
    \A c1 \in calls, c2 \in calls :
        (Done(c1) /\ Done(c2) /\ Counterparts(c1, c2)) =>
            /\ (pbScratch[c1] = NULL <=> pbScratch[c2] = NULL) => SameResult(c1, c2)
            /\ pbScratch[c1] = NULL => scError[c1] = SYMCRYPT_MEMORY_ALLOCATION_FAILURE

C2_Witness ==
    \E c1 \in calls, c2 \in calls :
        /\ Counterparts(c1, c2) /\ Done(c1) /\ Done(c2)
        /\ args[c1].pkPrivate = 3 /\ args[c2].pkPrivate = 2
        /\ scError[c1] = SYMCRYPT_NO_ERROR /\ scError[c2] = SYMCRYPT_NO_ERROR
        /\ pbAgreedSecret[c1] = pbAgreedSecret[c2]
        /\ ~Untouched(c1)

\* C3: with flags # 0 the call does no work at any point, never writes the
\* destination, and returns InvalidArgument.
C3_NonZeroFlags ==
    \A c \in calls :
        ~FlagsOk(args[c]) =>
            /\ NoWork(c) /\ Untouched(c)
            /\ pc[c] \in {"validate", "cleanup", "done"}
            /\ pc[c] # "validate" => scError[c] = SYMCRYPT_INVALID_ARGUMENT

C3_Witness ==
    \E c \in calls :
        /\ Done(c) /\ args[c].flags # 0
        /\ HasPrivate(args[c]) /\ SameGroup(args[c]) /\ SizeOk(args[c])
        /\ args[c].format = SYMCRYPT_NUMBER_FORMAT_MSB_FIRST
        /\ scError[c] = SYMCRYPT_INVALID_ARGUMENT

\* C4: without a private exponent, or with keys of different groups, the call
\* does no work at any point and returns InvalidArgument, whatever the flags,
\* the format and the destination length.
C4_NoPrivateOrOtherGroup ==
    \A c \in calls :
        (~HasPrivate(args[c]) \/ ~SameGroup(args[c])) =>
            /\ NoWork(c) /\ Untouched(c)
            /\ pc[c] \in {"validate", "cleanup", "done"}
            /\ pc[c] # "validate" => scError[c] = SYMCRYPT_INVALID_ARGUMENT

C4_Witness ==
    \E c \in calls :
        /\ Done(c) /\ FlagsOk(args[c]) /\ HasPrivate(args[c]) /\ ~SameGroup(args[c])
        /\ SizeOk(args[c])
        /\ scError[c] = SYMCRYPT_INVALID_ARGUMENT

\* C5 as stated: every call with a destination length other than the public
\* element size returns WrongOutputSize and allocates nothing.
C5_WrongSizeAlways ==
    \A c \in calls :
        ~SizeOk(args[c]) =>
            /\ ops[c].alloc = 0
            /\ Done(c) => scError[c] = SYMCRYPT_WRONG_BLOCK_SIZE

\* C5: a call with zero flags, a private exponent and keys of one group, whose
\* destination length is not the public element size, returns WrongOutputSize
\* and does no work at any point.
C5_WrongSizeAfterOtherGates ==
    \A c \in calls :
        (FlagsOk(args[c]) /\ HasPrivate(args[c]) /\ SameGroup(args[c]) /\ ~SizeOk(args[c])) =>
            /\ NoWork(c) /\ Untouched(c)
            /\ pc[c] \in {"validate", "cleanup", "done"}
            /\ pc[c] # "validate" => scError[c] = SYMCRYPT_WRONG_BLOCK_SIZE

C5_Witness ==
    \E c \in calls :
        /\ Done(c) /\ FlagsOk(args[c]) /\ HasPrivate(args[c]) /\ SameGroup(args[c])
        /\ args[c].cbAgreedSecret > Dlgroup[Dlkey[args[c].pkPrivate].pDlgroup].cbPrimeP
        /\ scError[c] = SYMCRYPT_WRONG_BLOCK_SIZE

\* C6: once the zero check has run, a zero computed element means InvalidBlob
\* with the encoding never called and the destination untouched, and a
\* non-zero computed element means the status is not InvalidBlob, also when
\* the public element was zero; no call without an exponentiation ends with
\* InvalidBlob.
C6_ZeroResult ==
    \A c \in calls :
        /\ ops[c].modexp = 0 => scError[c] # SYMCRYPT_INVALID_BLOB
        /\ (ops[c].modexp = 1 /\ pc[c] \in {"getvalue", "cleanup", "free", "done"}) =>
            /\ Computed(c) = 0 =>
                  /\ scError[c] = SYMCRYPT_INVALID_BLOB
                  /\ ops[c].getvalue = 0
                  /\ Untouched(c)
                  /\ pc[c] # "getvalue"
            /\ Computed(c) # 0 => scError[c] # SYMCRYPT_INVALID_BLOB

C6_Witness ==
    \E c \in calls :
        /\ Done(c) /\ ops[c].modexp = 1 /\ Computed(c) = 0
        /\ scError[c] = SYMCRYPT_INVALID_BLOB /\ Untouched(c)

\* The other case of C6: a zero public element with a non-zero result.
C6_WitnessZeroPublic ==
    \E c \in calls :
        /\ Done(c) /\ ops[c].modexp = 1 /\ Computed(c) # 0
        /\ Dlkey[args[c].pkPublic].pePublicKey = 0
        /\ scError[c] = SYMCRYPT_NO_ERROR /\ ~Untouched(c)

\* The size C7 names, for the group of the private key of a.
ExpectedScratch(a) ==
    LET g  == Dlkey[a.pkPrivate].pDlgroup
        me == SYMCRYPT_SCRATCH_BYTES_FOR_MODEXP(Dlgroup[g].nDigitsOfP)
        co == SYMCRYPT_SCRATCH_BYTES_FOR_COMMON_MOD_OPERATIONS(Dlgroup[g].nDigitsOfP)
    IN  SymCryptSizeofModElementFromModulus(g) + (IF me >= co THEN me ELSE co)

\* C7: a call that passes validation allocates exactly once, the element size
\* plus the larger working-space need; when that allocation fails the status
\* is MemoryAllocationFailure and nothing was constructed, computed, written,
\* wiped or freed.
C7_OneAllocation ==
    \A c \in calls :
        /\ ops[c].alloc <= 1
        /\ (PassesValidation(args[c]) /\ pc[c] # "validate") =>
              /\ cbScratch[c] = ExpectedScratch(args[c])
              /\ pc[c] # "alloc" => ops[c].alloc = 1
              /\ pbScratch[c] # NULL /\ pc[c] # "done" =>
                    /\ heap[pbScratch[c]].owner = c
                    /\ heap[pbScratch[c]].cb = ExpectedScratch(args[c])
        /\ (ops[c].alloc = 1 /\ pbScratch[c] = NULL) =>
              /\ scError[c] = SYMCRYPT_MEMORY_ALLOCATION_FAILURE
              /\ ops[c].modexp = 0 /\ ops[c].getvalue = 0
              /\ ops[c].wipe = 0 /\ ops[c].free = 0
              /\ Owned(c) = {} /\ encStatus[c] = "none"
              /\ Untouched(c)
              /\ \A b \in Blocks : heap[b].mem = ZeroBytes

C7_Witness ==
    \E c \in calls :
        /\ Done(c) /\ PassesValidation(args[c]) /\ ops[c].alloc = 1 /\ pbScratch[c] = NULL
        /\ scError[c] = SYMCRYPT_MEMORY_ALLOCATION_FAILURE

\* What the call with arguments a returns when it runs alone.
SoloResult(a) ==
    LET g == Dlkey[a.pkPrivate].pDlgroup
        r == SymCryptModExp(Dlgroup[g].pmP, Dlkey[a.pkPublic].pePublicKey,
                            Dlkey[a.pkPrivate].piPrivateKey,
                            IF Dlkey[a.pkPrivate].fPrivateModQ
                            THEN Dlkey[a.pkPrivate].nBitsPriv ELSE Dlgroup[g].nBitsOfP)
    IN  IF ~FlagsOk(a) \/ ~HasPrivate(a) \/ ~SameGroup(a)
        THEN [st |-> SYMCRYPT_INVALID_ARGUMENT, out |-> PriorBuffer(a.cbAgreedSecret)]
        ELSE IF ~SizeOk(a)
        THEN [st |-> SYMCRYPT_WRONG_BLOCK_SIZE, out |-> PriorBuffer(a.cbAgreedSecret)]
        ELSE IF r = 0
        THEN [st |-> SYMCRYPT_INVALID_BLOB, out |-> PriorBuffer(a.cbAgreedSecret)]
        ELSE IF GetValueStatus(a.format) # SYMCRYPT_NO_ERROR
        THEN [st |-> GetValueStatus(a.format), out |-> PriorBuffer(a.cbAgreedSecret)]
        ELSE [st |-> SYMCRYPT_NO_ERROR, out |-> GetValueBytes(r, a.cbAgreedSecret, a.format)]

SoloResults == [a \in AllArgs |-> SoloResult(a)]

\* c holds a scratch buffer it has not released yet.
Holding(c) ==
    pbScratch[c] # NULL /\ pc[c] \in {"modexp", "iszero", "getvalue", "cleanup", "free"}

\* C8: under every interleaving, invocations that hold scratch hold different
\* blocks, each block is owned by the invocation that holds it and by no
\* other, and a returned invocation has the status and the output it has when
\* run alone (or MemoryAllocationFailure with the destination untouched when
\* its own allocation failed).
C8_Independent ==
    /\ \A c1 \in calls, c2 \in calls :
          (c1 # c2 /\ Holding(c1) /\ Holding(c2)) => pbScratch[c1] # pbScratch[c2]
    /\ \A c \in calls :
          /\ Holding(c) => Owned(c) = {pbScratch[c]}
          /\ ~Holding(c) => Owned(c) = {}
          /\ pc[c] \in {"iszero", "getvalue"} =>
                ReadElement(pbScratch[c], cbModelement[c]) = Computed(c)
          /\ Done(c) =>
                IF ops[c].alloc = 1 /\ pbScratch[c] = NULL
                THEN scError[c] = SYMCRYPT_MEMORY_ALLOCATION_FAILURE /\ Untouched(c)
                ELSE /\ scError[c] = SoloResults[args[c]].st
                     /\ pbAgreedSecret[c] = SoloResults[args[c]].out

C8_Witness ==
    \E c1 \in calls, c2 \in calls :
        /\ c1 # c2
        /\ args[c1].pkPrivate = args[c2].pkPrivate
        /\ pc[c1] = "cleanup" /\ Holding(c1) /\ ops[c1].getvalue = 1
        /\ pc[c2] = "getvalue"

\* C9: the bit-length passed to the exponentiation is the declared one for a
\* key reduced modulo the subgroup order and that of P otherwise, and two
\* invocations whose private keys agree in flag, declared bit-length and
\* group passed the same bit-length.
C9_BitLengthPolicy ==
    /\ \A c \in calls :
          ops[c].modexp = 1 =>
              nBitsOfExp[c] =
                  IF Dlkey[args[c].pkPrivate].fPrivateModQ
                  THEN Dlkey[args[c].pkPrivate].nBitsPriv
                  ELSE Dlgroup[Dlkey[args[c].pkPrivate].pDlgroup].nBitsOfP
    /\ \A c1 \in calls, c2 \in calls :
          (/\ ops[c1].modexp = 1 /\ ops[c2].modexp = 1
           /\ Dlkey[args[c1].pkPrivate].fPrivateModQ = Dlkey[args[c2].pkPrivate].fPrivateModQ
           /\ Dlkey[args[c1].pkPrivate].nBitsPriv = Dlkey[args[c2].pkPrivate].nBitsPriv
           /\ Dlkey[args[c1].pkPrivate].pDlgroup = Dlkey[args[c2].pkPrivate].pDlgroup)
          => nBitsOfExp[c1] = nBitsOfExp[c2]

C9_Witness ==
    \E c1 \in calls, c2 \in calls :
        /\ ops[c1].modexp = 1 /\ ops[c2].modexp = 1
        /\ args[c1].pkPrivate = 3 /\ args[c2].pkPrivate = 4
        /\ nBitsOfExp[c1] = nBitsOfExp[c2]

\* C10: once the encoding primitive has been called, the status of the call
\* is the status it reported, and the call returns only after the wipe and
\* the release; a call that returns success after a successful allocation was
\* told success by the encoding primitive.
C10_EncodingStatusVerbatim ==
    \A c \in calls :
        /\ ops[c].getvalue = 1 =>
              /\ pc[c] \in {"cleanup", "free", "done"}
              /\ scError[c] = encStatus[c]
              /\ Done(c) => ops[c].wipe = 1 /\ ops[c].free = 1 /\ Owned(c) = {}
        /\ (Done(c) /\ scError[c] = SYMCRYPT_NO_ERROR) =>
              ops[c].getvalue = 1 /\ encStatus[c] = SYMCRYPT_NO_ERROR

C10_Witness ==
    \E c \in calls :
        /\ Done(c) /\ ops[c].getvalue = 1
        /\ encStatus[c] = SYMCRYPT_INVALID_ARGUMENT
        /\ scError[c] = SYMCRYPT_INVALID_ARGUMENT
        /\ ops[c].wipe = 1 /\ ops[c].free = 1

====
